---------------------------- MODULE Spec2Model ----------------------------
(***************************************************************************)
(* Model of the Netease music plugin (src/main.py): the per-user           *)
(* interactive selection session.  The plugin runs on one asyncio event    *)
(* loop: a handler runs atomically from one `await` to the next, and any   *)
(* other handler (or the cleanup task) may run while it is suspended.      *)
(* Each action below is one such atomic stretch of a handler.              *)
(*                                                                         *)
(* Time is counted in whole seconds.  `await event.send(...)` hands the    *)
(* message to the host when it is called and then suspends.  A send made   *)
(* inside the try block of play_selected_song may raise, which the block   *)
(* catches; every other send is taken to be accepted by the host.          *)
(***************************************************************************)
EXTENDS Integers, Sequences, FiniteSets, TLC

VARIABLES
    waiting_users,   \* self.waiting_users: user_key -> [key, expire]
    song_cache,      \* self.song_cache: cache_key -> list of songs
    api,             \* self.api is not None (initialize() has run)
    cleanup_task,    \* the _periodic_cleanup task: [pc, wake]
    msg_searching,   \* config["msg_searching"] is a non-empty string
    now,             \* time.time(), in seconds
    ticks,           \* how many times the clock has advanced
    tasks,           \* the handler coroutines in flight
    started,         \* how many handlers the host has started
    senders,         \* who writes to the bot in this run
    cacheOwner,      \* history: who stored the entry under each cache key
    observed,        \* history: the last step that left no coroutine behind
    http_session,    \* self.http_session: "none", "open" or "closed"
    terminate,       \* where the terminate() coroutine is
    cleanup_errors,  \* how many "Cleanup task error" lines were logged
    audio            \* one call of api.get_audio_url and what follows it

\* the variables that the message handlers neither read nor write
lifecycle == <<terminate, cleanup_errors>>

vars == <<waiting_users, song_cache, api, cleanup_task, msg_searching,
          now, ticks, tasks, started, senders, cacheOwner, observed,
          http_session, terminate, cleanup_errors, audio>>

-----------------------------------------------------------------------------
(* Bounds of the model *)

MaxTasks == 2
MaxHandlers == 3
MaxTicks == 2
MaxSongs == 2

(* Program constants *)

TTL == 60
CleanupInterval == 60
search_limit == 5

-----------------------------------------------------------------------------
(* Inputs *)

\* (session identifier, sender identifier) of the inbound events: two users
\* of one group, and two users of two groups whose identifiers hold a "_"
TwoUsers ==
    { [session |-> "g",   sender |-> "u"],
      [session |-> "g",   sender |-> "x_u"] }

OneUser == { [session |-> "g", sender |-> "u"] }

TwoGroups ==
    { [session |-> "g",   sender |-> "x_u"],
      [session |-> "g_x", sender |-> "u"] }

Keywords == {"Lemon"}

\* what the catalog may answer to a search: no song, or up to MaxSongs
\* songs; a song is its id
SongId(i) == 10 + i

SongLists == { [i \in 1..n |-> SongId(i)] : n \in 0..MaxSongs }

\* the number typed by the user: ^\d+$ parsed by int()
Numbers == 0..(MaxSongs + 1)

\* how far the clock moves in one step
TickSteps == {1, TTL}

Tasks == 1..MaxTasks

\* config["quality"]: the `level` values of the catalog that are used here
Qualities == {"standard", "higher", "exhigh", "lossless"}

\* config.setdefault("quality", "exhigh")
DefaultQuality == "exhigh"

\* what the catalog may answer to /song/url/v1 for one level: a non-success
\* status, success with an empty data list, success with data[0] holding no
\* url, success with a url
Answers == {"error", "no_data", "no_url", "url"}

-----------------------------------------------------------------------------
(* Maps with a changing key set (Python dicts) *)

EmptyMap == [k \in {} |-> 0]

Has(m, k) == k \in DOMAIN m

Put(m, k, v) == [x \in (DOMAIN m) \cup {k} |-> IF x = k THEN v ELSE m[x]]

Del(m, k) == [x \in (DOMAIN m) \ {k} |-> m[x]]

\* m.get(k) of a dict of lists: None is taken as the empty list, which is
\* what every `if not songs` of the plugin does with it
Get(m, k) == IF k \in DOMAIN m THEN m[k] ELSE <<>>

DelAll(m, ks) == [x \in (DOMAIN m) \ ks |-> m[x]]

-----------------------------------------------------------------------------
(* Pure functions of the plugin *)

\* f"{session_id}_{sender_id}"
GetUserKey(who) == who.session \o "_" \o who.sender

\* f"{user_key}_{int(time.time())}"
CacheKey(user_key, t) == user_key \o "_" \o ToString(t)

\* time.time() + 60
Expire(t) == t + TTL

\* (variant: the session is given a second TTL before it counts as stale)
IsExpiredLate(user_session, t) == t > user_session.expire + TTL

\* time.time() > user_session["expire"]
IsExpired(user_session, t) == t > user_session.expire

\* (variant: the sweep also takes the sessions that expire right now)
SweepExpiredInclusive(user_session, t) == user_session.expire <= t

\* user_session['expire'] < now, in the sweep
SweepExpired(user_session, t) == user_session.expire < t

\* (variant: the range is checked against the configured search limit)
InRangeByLimit(num, songs) == 1 <= num /\ num <= search_limit

\* 1 <= num <= len(songs), in number_selection_handler
InRange(num, songs) == 1 <= num /\ num <= Len(songs)

\* (variant: a missing ResultSet goes unnoticed)
CacheLostNever(songs) == FALSE

\* `not songs` of number_selection_handler: the ResultSet is gone
CacheLost(songs) == songs = <<>>

\* the same check, made again in play_selected_song
PlayInRange(num, songs) == 1 <= num /\ num <= Len(songs)

\* (variant: songs[num - 2], the index shifted once too often; Python's
\* songs[-1] is the last song)
SelectedSongShifted(songs, num) ==
    songs[IF num - 2 < 0 THEN Len(songs) ELSE (num - 2) + 1]

\* songs[num - 1]["id"] (Python lists are 0-based, sequences here 1-based)
SelectedSong(songs, num) == songs[(num - 1) + 1]

\* the levels tried after the preferred one
FallbackLadder == <<"exhigh", "higher", "standard">>

\* list(dict.fromkeys(s)): the first occurrence of each element, in order
RECURSIVE FromKeys(_)
FromKeys(s) ==
    IF s = <<>>
    THEN <<>>
    ELSE LET front == FromKeys(SubSeq(s, 1, Len(s) - 1))
             last == s[Len(s)]
         IN  IF \E i \in 1..Len(front) : front[i] = last
             THEN front
             ELSE Append(front, last)

\* (variant: the list is used as written, the preferred level twice)
QualitiesToTryAll(quality) == <<quality>> \o FallbackLadder

\* qualities_to_try of get_audio_url
QualitiesToTry(quality) == FromKeys(<<quality>> \o FallbackLadder)

\* the loop body of get_audio_url on one answer: raise_for_status raises on
\* a non-success status, a url is returned, anything else goes on to the
\* next level
AnswerOutcome(answer) ==
    IF answer = "error" THEN "raise"
    ELSE IF answer = "url" THEN "return" ELSE "next"

\* audio_info["url"] as the catalog gives it for this song and level
AudioUrl(song_id, q) == "http://m/" \o ToString(song_id) \o "/" \o q

\* quality= of the text block in _send_song_messages: the configured
\* quality, whatever level the url came from
DetailQuality(configured, used) == configured

-----------------------------------------------------------------------------
(* Messages handed to the host *)

Msg(type, arg) == [type |-> type, arg |-> arg]

MsgInitError == Msg("msg_init_error", 0)
MsgSearching == Msg("msg_searching", 0)
MsgApiError == Msg("msg_api_error", 0)
\* (variant: the template is sent without the keyword filled in)
MsgNoResultsBare(keyword) == Msg("msg_no_results", "{keyword}")

MsgNoResults(keyword) == Msg("msg_no_results", keyword)
MsgSearchResults(songs) == Msg("msg_search_results", Len(songs))
MsgCacheExpired == Msg("msg_cache_expired", 0)
MsgInvalidSelection(songs) == Msg("msg_invalid_selection", Len(songs))
MsgNoAudioUrl == Msg("msg_no_audio_url", 0)
MsgPlayError == Msg("msg_play_error", 0)
MsgSongDetail(num) == Msg("msg_song_detail", num)
MsgRecord(song_id) == Msg("record", song_id)

-----------------------------------------------------------------------------
(* Handler coroutines *)

\* A coroutine is its handler (h), where it is suspended (pc), and the
\* locals it still reads when it resumes: the event's sender, the keyword,
\* the number typed, cache_key (in search_and_show; in
\* number_selection_handler user_session["key"]) and song_id.  `sent` lists
\* the messages it has handed to the host, a refused one taken out again,
\* and `calls` counts its catalog requests.
IdleTask ==
    [h |-> "idle", pc |-> "idle", who |-> [session |-> "", sender |-> ""],
     keyword |-> "", num |-> 0, cache_key |-> "", song_id |-> 0,
     sent |-> <<>>, calls |-> 0]

\* One call of get_audio_url as play_selected_song makes it, and the
\* messages that follow: the configured quality, the song, the levels
\* requested so far with the answers received, the value returned ("" for
\* None) and the messages sent after the call.
IdleAudio ==
    [pc |-> "idle", quality |-> DefaultQuality, song_id |-> 0,
     qualities_to_try |-> <<>>, requested |-> <<>>, answers |-> <<>>,
     url |-> "", sent |-> <<>>]

\* a new handler runs in the first free slot
FreeSlot(t) ==
    /\ started < MaxHandlers
    /\ tasks[t].h = "idle"
    /\ \A s \in 1..(t - 1) : tasks[s].h # "idle"

InitWith(who, searching, qualities) ==
    /\ senders = who
    /\ msg_searching \in searching
    /\ http_session = "none"
    /\ terminate = "none"
    /\ cleanup_errors = 0
    /\ audio \in { [IdleAudio EXCEPT !.quality = q] : q \in qualities }
    /\ waiting_users = EmptyMap
    /\ song_cache = EmptyMap
    /\ api = FALSE
    /\ cleanup_task = [pc |-> "none", wake |-> 0]
    /\ now = 0
    /\ ticks = 0
    /\ tasks = [t \in Tasks |-> IdleTask]
    /\ started = 0
    /\ cacheOwner = EmptyMap
    /\ observed = <<"nothing", 0>>

\* the plugin object as __init__ leaves it, with the default configuration
\* (msg_searching is "", quality is "exhigh")
Init == InitWith(TwoUsers, {FALSE}, {DefaultQuality})

\* users whose identifiers hold a "_"
InitTwoGroups == InitWith(TwoGroups, {FALSE}, {DefaultQuality})

\* msg_searching configured or not
InitSearching == InitWith(TwoUsers, BOOLEAN, {DefaultQuality})

\* one user, and the plugin is unloaded at some time
InitOneUser == InitWith(OneUser, {FALSE}, {DefaultQuality})

\* any preferred quality configured
InitQuality == InitWith(TwoUsers, {FALSE}, Qualities)

\* initialize(): opens the HTTP session, creates the API client and starts
\* the cleanup task, which at once goes to sleep for CleanupInterval seconds
Initialize ==
    /\ ~api
    /\ http_session' = "open"
    /\ api' = TRUE
    /\ cleanup_task' = [pc |-> "sleeping", wake |-> now + CleanupInterval]
    /\ UNCHANGED <<waiting_users, song_cache, msg_searching, now, ticks,
                   tasks, started, senders, lifecycle, audio, cacheOwner,
                   observed>>

\* the clock advances; nothing reads it before initialize(), so it is
\* counted from there
Tick ==
    /\ api
    /\ ticks < MaxTicks
    /\ \E d \in TickSteps : now' = now + d
    /\ ticks' = ticks + 1
    /\ UNCHANGED <<waiting_users, song_cache, api, cleanup_task,
                   msg_searching, tasks, started, senders,
                   http_session, lifecycle, audio, cacheOwner, observed>>

\* the ghost record of who stored what, kept for the keys still cached
OwnersOf(cache, owners) == [k \in DOMAIN cache |-> owners[k]]

\* one pass of the loop body of _periodic_cleanup, after asyncio.sleep(60)
\* has returned; the task then sleeps again
PeriodicCleanup ==
    /\ cleanup_task.pc = "sleeping"
    /\ now >= cleanup_task.wake
    /\ LET expired_sessions ==
               { uk \in DOMAIN waiting_users :
                     SweepExpired(waiting_users[uk], now) }
           cache_keys == { waiting_users[uk].key : uk \in expired_sessions }
       IN  /\ waiting_users' = DelAll(waiting_users, expired_sessions)
           /\ song_cache' = DelAll(song_cache, cache_keys)
           /\ cacheOwner' = OwnersOf(song_cache', cacheOwner)
           /\ observed' = <<"swept", Cardinality(expired_sessions)>>
    /\ cleanup_task' = [pc |-> "sleeping", wake |-> now + CleanupInterval]
    /\ UNCHANGED <<api, msg_searching, now, ticks, tasks, started, senders,
                   http_session, lifecycle, audio>>

\* (variant: the try is around the loop, an error ends the task)
PeriodicCleanupDied ==
    /\ cleanup_task.pc = "sleeping"
    /\ now >= cleanup_task.wake
    /\ cleanup_errors' = cleanup_errors + 1
    /\ cleanup_task' = [cleanup_task EXCEPT !.pc = "failed"]
    /\ UNCHANGED <<waiting_users, song_cache, api, msg_searching, now, ticks,
                   tasks, started, senders, cacheOwner, observed,
                   http_session, terminate, audio>>

\* a pass of the loop body that raises: `except Exception` logs the error
\* and the loop goes round to asyncio.sleep(60).  Nothing in the body
\* awaits and its deletions are guarded, so what can raise is the scan or
\* the logging before the first deletion: the dicts are as they were.
PeriodicCleanupFailed ==
    /\ cleanup_task.pc = "sleeping"
    /\ now >= cleanup_task.wake
    /\ cleanup_errors' = cleanup_errors + 1
    /\ cleanup_task' = [pc |-> "sleeping", wake |-> now + CleanupInterval]
    /\ UNCHANGED <<waiting_users, song_cache, api, msg_searching, now, ticks,
                   tasks, started, senders, cacheOwner, observed,
                   http_session, terminate, audio>>

\* (variant: terminate() goes on without waiting for the task)
CleanupNotAwaited(task) == TRUE

\* `await self.cleanup_task` returns (here: raises CancelledError, which
\* terminate() passes over) once the task is done
CleanupAwaited(task) == task.pc = "cancelled"

\* terminate() up to its first await: the task exists and is not done, so
\* it is cancelled and awaited.  The host unloads a plugin it has
\* initialized, once.
TerminateStart ==
    /\ api
    /\ terminate = "none"
    /\ IF cleanup_task.pc \in {"sleeping", "cancelling"}
       THEN /\ cleanup_task' = [cleanup_task EXCEPT !.pc = "cancelling"]
            /\ terminate' = "await_cleanup"
            /\ UNCHANGED http_session
       ELSE /\ http_session' = "closed"
            /\ terminate' = "await_close"
            /\ UNCHANGED cleanup_task
    /\ UNCHANGED <<waiting_users, song_cache, api, msg_searching, now, ticks,
                   tasks, started, senders, cacheOwner, observed,
                   cleanup_errors, audio>>

\* the cancellation reaches _periodic_cleanup in asyncio.sleep:
\* CancelledError is not an Exception, the `except` of the loop lets it
\* through and the task ends
CleanupCancelled ==
    /\ cleanup_task.pc = "cancelling"
    /\ cleanup_task' = [cleanup_task EXCEPT !.pc = "cancelled"]
    /\ UNCHANGED <<waiting_users, song_cache, api, msg_searching, now, ticks,
                   tasks, started, senders, cacheOwner, observed,
                   http_session, lifecycle, audio>>

\* lines 190-195: the await of the task is over; the HTTP session is open
\* and is closed
TerminateCleanupDone ==
    /\ terminate = "await_cleanup"
    /\ CleanupAwaited(cleanup_task)
    /\ http_session' = IF http_session = "open" THEN "closed"
                       ELSE http_session
    /\ terminate' = "await_close"
    /\ UNCHANGED <<waiting_users, song_cache, api, cleanup_task,
                   msg_searching, now, ticks, tasks, started, senders,
                   cacheOwner, observed, cleanup_errors, audio>>

\* http_session.close() and super().terminate() returned: terminate() is
\* over
TerminateReturned ==
    /\ terminate = "await_close"
    /\ terminate' = "returned"
    /\ UNCHANGED <<waiting_users, song_cache, api, cleanup_task,
                   msg_searching, now, ticks, tasks, started, senders,
                   cacheOwner, observed, http_session, cleanup_errors, audio>>

-----------------------------------------------------------------------------
(* search_and_show, reached from cmd_handler and natural_language_handler *)

\* up to the first await: the init check, the optional "searching" notice,
\* then the call of api.search_songs
SearchStart(t, who, keyword) ==
    /\ FreeSlot(t)
    /\ tasks' = [tasks EXCEPT ![t] =
          IF ~api
          THEN [IdleTask EXCEPT !.h = "search", !.who = who,
                    !.keyword = keyword, !.pc = "last_send",
                    !.sent = <<MsgInitError>>]
          ELSE [IdleTask EXCEPT !.h = "search", !.who = who,
                    !.keyword = keyword, !.pc = "await_search",
                    !.sent = IF msg_searching THEN <<MsgSearching>> ELSE <<>>,
                    !.calls = 1]]
    /\ started' = started + 1
    /\ UNCHANGED <<waiting_users, song_cache, api, cleanup_task,
                   msg_searching, now, ticks, senders,
                   http_session, lifecycle, audio, cacheOwner, observed>>

\* api.search_songs raised: the error message is sent
SearchFailed(t) ==
    /\ tasks[t].h = "search" /\ tasks[t].pc = "await_search"
    /\ tasks' = [tasks EXCEPT ![t].pc = "last_send",
                              ![t].sent = Append(@, MsgApiError)]
    /\ UNCHANGED <<waiting_users, song_cache, api, cleanup_task,
                   msg_searching, now, ticks, started, senders,
                   http_session, lifecycle, audio, cacheOwner, observed>>

\* api.search_songs returned `songs`: lines 348-374, up to the send of the
\* numbered list
SearchReturned(t, songs) ==
    /\ tasks[t].h = "search" /\ tasks[t].pc = "await_search"
    /\ LET user_key == GetUserKey(tasks[t].who)
           cache_key == CacheKey(user_key, now)
           old_cache_key == waiting_users[user_key].key
           cleaned == IF Has(waiting_users, user_key)
                         /\ Has(song_cache, old_cache_key)
                      THEN Del(song_cache, old_cache_key)
                      ELSE song_cache
       IN  IF songs = <<>>
           THEN /\ tasks' = [tasks EXCEPT ![t].pc = "last_send",
                       ![t].sent = Append(@, MsgNoResults(tasks[t].keyword))]
                /\ UNCHANGED <<song_cache, cacheOwner>>
           ELSE /\ song_cache' = Put(cleaned, cache_key, songs)
                /\ cacheOwner' = OwnersOf(song_cache',
                                     Put(cacheOwner, cache_key, tasks[t].who))
                /\ tasks' = [tasks EXCEPT ![t].pc = "list_send",
                       ![t].cache_key = cache_key,
                       ![t].sent = Append(@, MsgSearchResults(songs))]
    /\ UNCHANGED <<waiting_users, api, cleanup_task, msg_searching, now,
                   ticks, started, senders,
                   http_session, lifecycle, audio, observed>>

\* the send of the list returned: line 376 writes the PendingSelection and
\* the handler returns
SearchListSent(t) ==
    /\ tasks[t].h = "search" /\ tasks[t].pc = "list_send"
    /\ waiting_users' = Put(waiting_users, GetUserKey(tasks[t].who),
                            [key |-> tasks[t].cache_key,
                             expire |-> Expire(now)])
    /\ tasks' = [tasks EXCEPT ![t] = IdleTask]
    /\ UNCHANGED <<song_cache, api, cleanup_task, msg_searching, now, ticks,
                   started, senders,
                   http_session, lifecycle, audio, cacheOwner, observed>>

\* the last send of a handler returned and the handler returns with no
\* further effect (error and no-result messages, the invalid-selection
\* message); the coroutine is gone
LastSendReturned(t) ==
    /\ tasks[t].pc = "last_send"
    /\ tasks' = [tasks EXCEPT ![t] = IdleTask]
    /\ UNCHANGED <<waiting_users, song_cache, api, cleanup_task,
                   msg_searching, now, ticks, started, senders,
                   http_session, lifecycle, audio, cacheOwner, observed>>

-----------------------------------------------------------------------------
(* number_selection_handler and play_selected_song *)

\* play_selected_song up to its first await (lines 380-400): what it sends,
\* where it suspends, the song it picked and the cache it leaves
PlayEntry(cache, cache_key, num) ==
    LET songs == Get(cache, cache_key)
    IN  IF songs = <<>>
        THEN [pc |-> "play_send", msg |-> <<MsgCacheExpired>>, song_id |-> 0,
              calls |-> 0, cache |-> cache]
        ELSE IF ~PlayInRange(num, songs)
        THEN [pc |-> "play_send", msg |-> <<MsgInvalidSelection(songs)>>,
              song_id |-> 0, calls |-> 0, cache |-> cache]
        ELSE [pc |-> "await_details", msg |-> <<>>,
              song_id |-> SelectedSong(songs, num), calls |-> 1,
              cache |-> Del(cache, cache_key)]

\* (variant: a number from a user who is not waiting is answered as stale)
AnsweredReturn(who, num) ==
    [task |-> [IdleTask EXCEPT !.h = "number", !.who = who, !.num = num,
                   !.pc = "last_send", !.sent = <<MsgCacheExpired>>],
     cache |-> song_cache]

\* lines 285-286: the user is not in waiting_users, the handler returns
SilentReturn(who, num) == [task |-> IdleTask, cache |-> song_cache]

\* number_selection_handler up to its first await (lines 283-322, and into
\* play_selected_song): the coroutine it becomes, or IdleTask when it
\* returns at once
NumberEntry(who, num) ==
    LET user_key == GetUserKey(who)
        user_session == waiting_users[user_key]
        cache_key == user_session.key
        songs == Get(song_cache, cache_key)
        play == PlayEntry(song_cache, cache_key, num)
        me == [IdleTask EXCEPT !.h = "number", !.who = who, !.num = num]
    IN  IF ~Has(waiting_users, user_key)
        THEN SilentReturn(who, num)
        ELSE IF IsExpired(user_session, now)
        THEN [task |-> [me EXCEPT !.pc = "expired_send",
                            !.cache_key = cache_key,
                            !.sent = <<MsgCacheExpired>>],
              cache |-> song_cache]
        ELSE IF CacheLost(songs)
        THEN [task |-> [me EXCEPT !.pc = "lost_send",
                            !.cache_key = cache_key,
                            !.sent = <<MsgCacheExpired>>],
              cache |-> song_cache]
        ELSE IF ~InRange(num, songs)
        THEN [task |-> [me EXCEPT !.pc = "last_send",
                            !.sent = <<MsgInvalidSelection(songs)>>],
              cache |-> song_cache]
        ELSE [task |-> [me EXCEPT !.pc = play.pc,
                            !.cache_key = cache_key,
                            !.song_id = play.song_id,
                            !.calls = play.calls,
                            !.sent = play.msg],
              cache |-> play.cache]

NumberStart(t, who, num) ==
    /\ FreeSlot(t)
    /\ started' = started + 1
    /\ tasks' = [tasks EXCEPT ![t] = NumberEntry(who, num).task]
    /\ song_cache' = NumberEntry(who, num).cache
    /\ cacheOwner' = OwnersOf(song_cache', cacheOwner)
    /\ observed' = IF NumberEntry(who, num).task = IdleTask
                   THEN <<"ignored", 0>>
                   ELSE observed
    /\ UNCHANGED <<waiting_users, api, cleanup_task, msg_searching, now,
                   ticks, senders,
                   http_session, lifecycle, audio>>

\* lines 292-297, after the send of the stale message returned
NumberExpiredSent(t) ==
    /\ tasks[t].h = "number" /\ tasks[t].pc = "expired_send"
    /\ waiting_users' = Del(waiting_users, GetUserKey(tasks[t].who))
    /\ song_cache' = Del(song_cache, tasks[t].cache_key)
    /\ cacheOwner' = OwnersOf(song_cache', cacheOwner)
    /\ tasks' = [tasks EXCEPT ![t] = IdleTask]
    /\ UNCHANGED <<api, cleanup_task, msg_searching, now, ticks, started,
                   senders,
                   http_session, lifecycle, audio, observed>>

\* lines 311-313, after the send of the stale message returned
NumberLostSent(t) ==
    /\ tasks[t].h = "number" /\ tasks[t].pc = "lost_send"
    /\ waiting_users' = Del(waiting_users, GetUserKey(tasks[t].who))
    /\ tasks' = [tasks EXCEPT ![t] = IdleTask]
    /\ UNCHANGED <<song_cache, api, cleanup_task, msg_searching, now, ticks,
                   started, senders,
                   http_session, lifecycle, audio, cacheOwner, observed>>

\* api.get_song_details returned a song: api.get_audio_url is called
DetailsFound(t) ==
    /\ tasks[t].pc = "await_details"
    /\ tasks' = [tasks EXCEPT ![t].pc = "await_audio", ![t].calls = @ + 1]
    /\ UNCHANGED <<waiting_users, song_cache, api, cleanup_task,
                   msg_searching, now, ticks, started, senders,
                   http_session, lifecycle, audio, cacheOwner, observed>>

\* api.get_audio_url returned a URL: _send_song_messages calls
\* api.download_image
AudioFound(t) ==
    /\ tasks[t].pc = "await_audio"
    /\ tasks' = [tasks EXCEPT ![t].pc = "await_image", ![t].calls = @ + 1]
    /\ UNCHANGED <<waiting_users, song_cache, api, cleanup_task,
                   msg_searching, now, ticks, started, senders,
                   http_session, lifecycle, audio, cacheOwner, observed>>

\* api.get_audio_url returned None: the no-audio message is sent
AudioMissing(t) ==
    /\ tasks[t].pc = "await_audio"
    /\ tasks' = [tasks EXCEPT ![t].pc = "play_send",
                              ![t].sent = Append(@, MsgNoAudioUrl)]
    /\ UNCHANGED <<waiting_users, song_cache, api, cleanup_task,
                   msg_searching, now, ticks, started, senders,
                   http_session, lifecycle, audio, cacheOwner, observed>>

\* a catalog call of the delivery raised, or get_song_details returned
\* None: the except clause sends the play-error message
PlayFailed(t) ==
    /\ tasks[t].pc \in {"await_details", "await_audio", "await_image"}
    /\ tasks' = [tasks EXCEPT ![t].pc = "play_send",
                              ![t].sent = Append(@, MsgPlayError)]
    /\ UNCHANGED <<waiting_users, song_cache, api, cleanup_task,
                   msg_searching, now, ticks, started, senders,
                   http_session, lifecycle, audio, cacheOwner, observed>>

\* (variant: the exception leaves play_selected_song and ends the handler)
PlaySendUncaught(t) ==
    /\ tasks[t].h = "number"
    /\ tasks[t].pc \in {"info_send", "play_send"}
    /\ tasks' = [tasks EXCEPT ![t] = IdleTask]
    /\ UNCHANGED <<waiting_users, song_cache, api, cleanup_task,
                   msg_searching, now, ticks, started, senders,
                   http_session, lifecycle, audio, cacheOwner, observed>>

\* a send inside the try block raised (the text block, the audio message
\* or the no-audio message): the except clause sends the play-error message
PlaySendFailed(t) ==
    /\ tasks[t].h = "number"
    /\ \/ tasks[t].pc = "info_send"
       \/ /\ tasks[t].pc = "play_send"
          /\ tasks[t].sent[Len(tasks[t].sent)].type
                 \in {"record", "msg_no_audio_url"}
    /\ tasks' = [tasks EXCEPT ![t].pc = "play_send",
             ![t].sent = Append(SubSeq(@, 1, Len(@) - 1), MsgPlayError)]
    /\ UNCHANGED <<waiting_users, song_cache, api, cleanup_task,
                   msg_searching, now, ticks, started, senders,
                   http_session, lifecycle, audio, cacheOwner, observed>>

\* api.download_image returned (the cover or None): the text block is sent
ImageReturned(t) ==
    /\ tasks[t].pc = "await_image"
    /\ tasks' = [tasks EXCEPT ![t].pc = "info_send",
                              ![t].sent = Append(@, MsgSongDetail(tasks[t].num))]
    /\ UNCHANGED <<waiting_users, song_cache, api, cleanup_task,
                   msg_searching, now, ticks, started, senders,
                   http_session, lifecycle, audio, cacheOwner, observed>>

\* the send of the text block returned: the audio message is sent
InfoSent(t) ==
    /\ tasks[t].pc = "info_send"
    /\ tasks' = [tasks EXCEPT ![t].pc = "play_send",
                              ![t].sent = Append(@, MsgRecord(tasks[t].song_id))]
    /\ UNCHANGED <<waiting_users, song_cache, api, cleanup_task,
                   msg_searching, now, ticks, started, senders,
                   http_session, lifecycle, audio, cacheOwner, observed>>

\* the last send of play_selected_song returned; back in
\* number_selection_handler, lines 325-326 remove the PendingSelection
PlayReturned(t) ==
    /\ tasks[t].h = "number" /\ tasks[t].pc = "play_send"
    /\ waiting_users' = Del(waiting_users, GetUserKey(tasks[t].who))
    /\ tasks' = [tasks EXCEPT ![t] = IdleTask]
    /\ UNCHANGED <<song_cache, api, cleanup_task, msg_searching, now, ticks,
                   started, senders,
                   http_session, lifecycle, audio, cacheOwner, observed>>

-----------------------------------------------------------------------------
(* api.get_audio_url, as called at line 404, and the messages after it *)

\* what the audio steps leave alone
plugin == <<waiting_users, song_cache, api, cleanup_task, msg_searching,
            now, ticks, tasks, started, senders, cacheOwner, observed,
            http_session, lifecycle>>

\* lines 54-59: the list of levels is built and the first request is made
GetAudioUrl(song_id) ==
    /\ api
    /\ audio.pc = "idle"
    /\ LET qualities_to_try == QualitiesToTry(audio.quality)
       IN  audio' = [audio EXCEPT !.pc = "request", !.song_id = song_id,
                         !.qualities_to_try = qualities_to_try,
                         !.requested = <<qualities_to_try[1]>>]
    /\ UNCHANGED plugin

\* lines 59-68: the catalog answers the request in flight
AudioAnswered(answer) ==
    /\ audio.pc = "request"
    /\ LET n == Len(audio.requested)
           q == audio.requested[n]
           heard == [audio EXCEPT !.answers = Append(@, answer)]
       IN  audio' =
             IF AnswerOutcome(answer) = "raise"
             THEN [heard EXCEPT !.pc = "raised"]
             ELSE IF AnswerOutcome(answer) = "return"
             THEN [heard EXCEPT !.pc = "returned",
                                !.url = AudioUrl(audio.song_id, q)]
             ELSE IF n < Len(audio.qualities_to_try)
             THEN [heard EXCEPT
                       !.requested = Append(@, audio.qualities_to_try[n + 1])]
             ELSE [heard EXCEPT !.pc = "returned", !.url = ""]
    /\ UNCHANGED plugin

\* lines 405-420 and 426-443, back in play_selected_song: the play-error
\* message when the call raised, the no-audio message when it returned
\* None, else the text block and the audio message
AudioDelivered ==
    /\ audio.pc \in {"raised", "returned"}
    /\ LET used == audio.requested[Len(audio.requested)]
       IN  audio' = [audio EXCEPT !.pc = "sent", !.sent =
             IF audio.pc = "raised"
             THEN <<MsgPlayError>>
             ELSE IF audio.url = ""
             THEN <<MsgNoAudioUrl>>
             ELSE << Msg("msg_song_detail", DetailQuality(audio.quality, used)),
                     Msg("record", audio.url) >>]
    /\ UNCHANGED plugin

NextQuality ==
    \/ Initialize
    \/ \E i \in 1..MaxSongs : GetAudioUrl(SongId(i))
    \/ \E answer \in Answers : AudioAnswered(answer)
    \/ AudioDelivered

-----------------------------------------------------------------------------
Next ==
    \/ Initialize
    \/ Tick
    \/ PeriodicCleanup
    \/ \E t \in Tasks, who \in senders, keyword \in Keywords :
           SearchStart(t, who, keyword)
    \/ \E t \in Tasks : SearchFailed(t)
    \/ \E t \in Tasks, songs \in SongLists : SearchReturned(t, songs)
    \/ \E t \in Tasks : SearchListSent(t)
    \/ \E t \in Tasks : LastSendReturned(t)
    \/ \E t \in Tasks, who \in senders, num \in Numbers :
           NumberStart(t, who, num)
    \/ \E t \in Tasks : NumberExpiredSent(t)
    \/ \E t \in Tasks : NumberLostSent(t)
    \/ \E t \in Tasks : DetailsFound(t)
    \/ \E t \in Tasks : AudioFound(t)
    \/ \E t \in Tasks : AudioMissing(t)
    \/ \E t \in Tasks : PlayFailed(t)
    \/ \E t \in Tasks : PlaySendFailed(t)
    \/ \E t \in Tasks : ImageReturned(t)
    \/ \E t \in Tasks : InfoSent(t)
    \/ \E t \in Tasks : PlayReturned(t)

\* the same with the sweeps that fail and with the unloading of the plugin
NextLifecycle ==
    \/ Next
    \/ PeriodicCleanupFailed
    \/ TerminateStart
    \/ CleanupCancelled
    \/ TerminateCleanupDone
    \/ TerminateReturned

Spec == Init /\ [][Next]_vars

SpecTwoGroups == InitTwoGroups /\ [][Next]_vars

SpecSearching == InitSearching /\ [][Next]_vars

SpecQuality == InitQuality /\ [][NextQuality]_vars

SpecLifecycle == InitOneUser /\ [][NextLifecycle]_vars

-----------------------------------------------------------------------------
(* Vocabulary of the properties *)

UserKeyOf(t) == GetUserKey(tasks[t].who)

\* the coroutine in slot t takes this step
Stepped(t) == tasks'[t] # tasks[t]

\* play_selected_song has picked its song and is resolving or sending it
DeliveryPcs == {"await_details", "await_audio", "await_image", "info_send",
                "play_send"}

Delivering(t) == tasks[t].h = "number" /\ tasks[t].pc \in DeliveryPcs

\* the ResultSets in the cache that the searches of this user stored
ResultSetsOf(user_key) ==
    { k \in DOMAIN song_cache : GetUserKey(cacheOwner[k]) = user_key }

SearchInFlight(user_key) ==
    \E t \in Tasks : tasks[t].h = "search" /\ UserKeyOf(t) = user_key

StoresUnchanged ==
    waiting_users' = waiting_users /\ song_cache' = song_cache

\* a ResultSet that no PendingSelection references and that no search is
\* about to give an owner (the search that stored it has written, or lost,
\* its PendingSelection)
Orphan(k) ==
    /\ k \in DOMAIN song_cache
    /\ \A uk \in DOMAIN waiting_users : waiting_users[uk].key # k
    /\ \A t \in Tasks :
           ~(tasks[t].h = "search" /\ tasks[t].pc = "list_send"
               /\ tasks[t].cache_key = k)

\* the second in which the ResultSet under cache key k was stored
StoredAt(k) ==
    CHOOSE at \in 0..(MaxTicks * TTL) :
        \E w \in senders : k = CacheKey(GetUserKey(w), at)

\* the last message the coroutine in slot t has handed to the host
LastSent(t) == tasks[t].sent[Len(tasks[t].sent)]

\* the delivery in slot t has failed and has said so
FailureReported(t) ==
    /\ Delivering(t)
    /\ tasks[t].pc = "play_send"
    /\ tasks[t].sent # <<>>
    /\ LastSent(t) = [type |-> "msg_play_error", arg |-> 0]

-----------------------------------------------------------------------------
(* C1.  Once the searches of a user have finished, the Result Cache holds   *)
(* at most one ResultSet of that user: a search that succeeds after an      *)
(* earlier, unresolved one leaves the earlier ResultSet deleted.  (That the *)
(* Session Store holds at most one PendingSelection per user is the shape   *)
(* of the dict.)  The code breaks this when two searches overlap.           *)
C1_EarlierResultSetDeleted ==
    \A w \in senders :
        ~SearchInFlight(GetUserKey(w))
            => Cardinality(ResultSetsOf(GetUserKey(w))) <= 1

(* C2.  While the PendingSelection is unexpired and its ResultSet of N      *)
(* songs is cached, a reply k is accepted (delivery starts) exactly when    *)
(* 1 <= k <= N; any other k gets one invalid-selection message naming N,    *)
(* and neither that step nor the rest of the handler changes the Session    *)
(* Store or the Result Cache.                                               *)
C2_RepliesInRange ==
    [][ /\ \A t \in Tasks, w \in senders, k \in Numbers :
              LET uk == GetUserKey(w)
                  N == Len(song_cache[waiting_users[uk].key])
              IN  ( /\ uk \in DOMAIN waiting_users
                    /\ now <= waiting_users[uk].expire
                    /\ waiting_users[uk].key \in DOMAIN song_cache
                    /\ NumberStart(t, w, k) )
                  => IF 1 <= k /\ k <= N
                     THEN tasks'[t].pc = "await_details"
                     ELSE /\ tasks'[t].h = "number"
                          /\ tasks'[t].pc = "last_send"
                          /\ tasks'[t].sent =
                               << [type |-> "msg_invalid_selection",
                                   arg |-> N] >>
                          /\ StoresUnchanged
        /\ \A t \in Tasks :
              (tasks[t].h = "number" /\ tasks[t].pc = "last_send"
                  /\ Stepped(t))
              => tasks'[t] = IdleTask /\ StoresUnchanged
      ]_vars

C2_Witness ==
    \E t \in Tasks :
        /\ tasks[t].h = "number" /\ tasks[t].pc = "last_send"
        /\ tasks[t].num = 2
        /\ tasks[t].sent = << [type |-> "msg_invalid_selection", arg |-> 1] >>
        /\ UserKeyOf(t) \in DOMAIN waiting_users
        /\ waiting_users[UserKeyOf(t)].key \in DOMAIN song_cache

(* C3.  No delivery is in progress while the PendingSelection of that user  *)
(* is still in the Session Store.  The code removes it only after           *)
(* play_selected_song has returned.                                         *)
C3_IdleBeforeDelivery ==
    \A t \in Tasks : Delivering(t) => UserKeyOf(t) \notin DOMAIN waiting_users

(* C4.  A number received after expiresAt gets the stale-session message    *)
(* and no catalog request, and when the handler returns neither the         *)
(* PendingSelection of the user nor the ResultSet it referenced is there.   *)
C4_ExpiredReply ==
    [][ /\ \A t \in Tasks, w \in senders, k \in Numbers :
              LET uk == GetUserKey(w)
              IN  ( /\ uk \in DOMAIN waiting_users
                    /\ now > waiting_users[uk].expire
                    /\ NumberStart(t, w, k) )
                  => /\ tasks'[t].h = "number"
                     /\ tasks'[t].pc = "expired_send"
                     /\ tasks'[t].sent =
                          << [type |-> "msg_cache_expired", arg |-> 0] >>
                     /\ tasks'[t].calls = 0
                     /\ tasks'[t].cache_key = waiting_users[uk].key
        /\ \A t \in Tasks :
              (tasks[t].pc = "expired_send" /\ Stepped(t))
              => /\ tasks'[t] = IdleTask
                 /\ UserKeyOf(t) \notin DOMAIN waiting_users'
                 /\ tasks[t].cache_key \notin DOMAIN song_cache'
      ]_vars

C4_Witness ==
    \E t \in Tasks :
        /\ tasks[t].pc = "expired_send"
        /\ UserKeyOf(t) \in DOMAIN waiting_users
        /\ now = waiting_users[UserKeyOf(t)].expire + 1
        /\ tasks[t].cache_key \in DOMAIN song_cache

(* C5.  A valid reply k resolves the k-th song of the ResultSet that the    *)
(* PendingSelection of the user references, and the song does not change    *)
(* during the delivery.                                                     *)
C5_KthSong ==
    [][ /\ \A t \in Tasks, w \in senders, k \in Numbers :
              LET uk == GetUserKey(w)
                  ResultSet == song_cache[waiting_users[uk].key]
              IN  ( /\ uk \in DOMAIN waiting_users
                    /\ now <= waiting_users[uk].expire
                    /\ waiting_users[uk].key \in DOMAIN song_cache
                    /\ k \in 1..Len(ResultSet)
                    /\ NumberStart(t, w, k) )
                  => /\ tasks'[t].pc = "await_details"
                     /\ tasks'[t].num = k
                     /\ tasks'[t].song_id = ResultSet[k]
        /\ \A t \in Tasks :
              (Delivering(t) /\ tasks'[t].h = "number")
              => tasks'[t].song_id = tasks[t].song_id
      ]_vars

C5_Witness ==
    \E t \in Tasks :
        /\ tasks[t].pc = "play_send"
        /\ tasks[t].num = 2
        /\ tasks[t].sent = << [type |-> "msg_song_detail", arg |-> 2],
                              [type |-> "record", arg |-> SongId(2)] >>

(* C6.  A handler of one (session, sender) never deletes or overwrites a    *)
(* ResultSet that another (session, sender) stored.  The user key          *)
(* session_sender is the same for ("g", "x_u") and ("g_x", "u").            *)
C6_OtherUsersUntouched ==
    [][ \A t \in Tasks :
            Stepped(t) =>
                LET actor == IF tasks[t].h = "idle" THEN tasks'[t].who
                             ELSE tasks[t].who
                IN  \A k \in DOMAIN song_cache :
                        ( \/ k \notin DOMAIN song_cache'
                          \/ song_cache'[k] # song_cache[k]
                          \/ cacheOwner'[k] # cacheOwner[k] )
                        => cacheOwner[k] = actor
      ]_vars

(* C7 as claimed: a search whose catalog call failed or found nothing has   *)
(* sent exactly one message.                                                *)
C7_ExactlyOneMessage ==
    \A t \in Tasks :
        (tasks[t].h = "search" /\ tasks[t].pc = "last_send"
            /\ tasks[t].calls = 1)
        => Len(tasks[t].sent) = 1

(* C7, amended.  A search whose catalog call fails or returns no song sends *)
(* exactly one message after the call (the upstream-error message, or the   *)
(* no-results message with the keyword), which the "searching" notice       *)
(* precedes exactly when msg_searching is configured; it writes neither     *)
(* the Session Store nor the Result Cache.                                  *)
C7_FailedSearch ==
    [][ /\ \A t \in Tasks :
              LET notice == IF msg_searching
                            THEN << [type |-> "msg_searching", arg |-> 0] >>
                            ELSE << >>
              IN  /\ SearchFailed(t)
                     => /\ tasks'[t].sent = notice \o
                              << [type |-> "msg_api_error", arg |-> 0] >>
                        /\ tasks'[t].pc = "last_send"
                        /\ StoresUnchanged
                  /\ SearchReturned(t, << >>)
                     => /\ tasks'[t].sent = notice \o
                              << [type |-> "msg_no_results",
                                  arg |-> tasks[t].keyword] >>
                        /\ tasks'[t].pc = "last_send"
                        /\ StoresUnchanged
        /\ \A t \in Tasks :
              (tasks[t].h = "search" /\ tasks[t].pc = "last_send"
                  /\ Stepped(t))
              => tasks'[t] = IdleTask /\ StoresUnchanged
      ]_vars

C7_Witness ==
    \E t \in Tasks :
        /\ tasks[t].h = "search" /\ tasks[t].pc = "last_send"
        /\ tasks[t].sent = << [type |-> "msg_searching", arg |-> 0],
                              [type |-> "msg_no_results", arg |-> "Lemon"] >>

(* C8.  A number from a user who has no PendingSelection is ignored: the    *)
(* handler returns at once, leaving no coroutine (so no message and no      *)
(* catalog request) and both stores as they were.                           *)
C8_NumberIgnored ==
    [][ \A t \in Tasks, w \in senders, k \in Numbers :
            (GetUserKey(w) \notin DOMAIN waiting_users /\ NumberStart(t, w, k))
            => tasks' = tasks /\ StoresUnchanged
      ]_vars

C8_Witness ==
    /\ observed = <<"ignored", 0>>
    /\ api
    /\ \A t \in Tasks : tasks[t] = IdleTask

C10_Sweep ==
    [][ PeriodicCleanup =>
            \A uk \in DOMAIN waiting_users :
                LET pending == waiting_users[uk]
                IN  IF pending.expire < now
                    THEN /\ uk \notin DOMAIN waiting_users'
                         /\ pending.key \notin DOMAIN song_cache'
                    ELSE /\ uk \in DOMAIN waiting_users'
                         /\ waiting_users'[uk] = pending
                         /\ pending.key \in DOMAIN song_cache
                            => /\ pending.key \in DOMAIN song_cache'
                               /\ song_cache'[pending.key]
                                      = song_cache[pending.key]
      ]_vars

\* the sweep at second 61 has removed the PendingSelection written at second
\* 0 (ttl 60) and kept one that is not yet expired, with its ResultSet
C10_Witness ==
    /\ observed = <<"swept", 1>>
    /\ now = TTL + 1
    /\ cleanup_task.wake = now + CleanupInterval
    /\ \E uk \in DOMAIN waiting_users :
           /\ waiting_users[uk].expire >= now
           /\ waiting_users[uk].key \in DOMAIN song_cache

(* C11.  get_audio_url requests the levels in the order preferred, exhigh,  *)
(* higher, standard, each level at most once (the preferred level is not    *)
(* requested again when the ladder names it); every request but the last    *)
(* was answered without a url; the call returns the url of the first level  *)
(* that gives one and makes no further request, and it returns None only    *)
(* when every level of that list has answered without a url.                *)
C11_LadderOrder ==
    LET preferred == audio.quality
        expected == <<preferred>> \o
                    SelectSeq(<<"exhigh", "higher", "standard">>,
                              LAMBDA q : q # preferred)
        n == Len(audio.requested)
        NoUrl(i) == audio.answers[i] \in {"no_data", "no_url"}
    IN  audio.pc # "idle" =>
          /\ n \in 1..Len(expected)
          /\ \A i \in 1..n : audio.requested[i] = expected[i]
          /\ \A i, j \in 1..n : i # j => audio.requested[i] # audio.requested[j]
          /\ Len(audio.answers) = IF audio.pc = "request" THEN n - 1 ELSE n
          /\ \A i \in 1..(n - 1) : NoUrl(i)
          /\ (audio.pc = "returned" /\ audio.answers[n] = "url")
                => audio.url = AudioUrl(audio.song_id, expected[n])
          /\ (audio.pc = "returned" /\ audio.answers[n] # "url")
                => /\ audio.url = ""
                   /\ audio.requested = expected
                   /\ \A i \in 1..n : NoUrl(i)

\* preferred "higher": higher, exhigh and standard were asked, once each,
\* none had a url, and the call returned None
C11_Witness ==
    /\ audio.pc = "returned"
    /\ audio.quality = "higher"
    /\ audio.requested = <<"higher", "exhigh", "standard">>
    /\ audio.url = ""

(* C12.  A non-success response on a level that is not the last of the      *)
(* ladder does not end get_audio_url: the next level is requested.  The     *)
(* code calls raise_for_status() inside the loop, with nothing to catch it. *)
C12_ErrorNotFatal ==
    \A i \in 1..Len(audio.answers) :
        (audio.answers[i] = "error" /\ i < Len(audio.qualities_to_try))
            => /\ Len(audio.requested) > i
               /\ audio.pc # "raised"

C14_QualityUsed ==
    (audio.pc = "sent" /\ audio.url # "")
        => audio.sent[1] = [type |-> "msg_song_detail",
                            arg |-> audio.requested[Len(audio.requested)]]

(* C15.  terminate() first cancels the sweeper; the HTTP session is closed  *)
(* only when the sweeper task has ended; terminate() returns with the task  *)
(* ended and the session closed; and no sweep, failed or not, runs once     *)
(* terminate() has begun, so none runs after it has returned.               *)
C15_ShutdownOrder ==
    [][ /\ (terminate = "none" /\ terminate' # "none")
              => cleanup_task'.pc = "cancelling"
        /\ http_session' = "closed" => cleanup_task'.pc = "cancelled"
        /\ terminate' = "returned"
              => http_session' = "closed" /\ cleanup_task'.pc = "cancelled"
        /\ (PeriodicCleanup \/ PeriodicCleanupFailed) => terminate = "none"
      ]_vars

\* terminate() has returned, and a sweep would be due: the time to wake
\* has come and an expired PendingSelection is there to be removed
C15_Witness ==
    /\ terminate = "returned"
    /\ http_session = "closed"
    /\ now >= cleanup_task.wake
    /\ \E uk \in DOMAIN waiting_users : waiting_users[uk].expire < now

(* C16.  A sweep that raises is logged and leaves the sweeper running: it   *)
(* sleeps again and is due CleanupInterval seconds later, as after a sweep  *)
(* that did not fail.  The sweeper stops sleeping for good only in the      *)
(* step in which terminate() cancels it.                                    *)
C16_SweeperSurvives ==
    [][ /\ PeriodicCleanupFailed
              => /\ cleanup_task' = [pc |-> "sleeping",
                                     wake |-> now + CleanupInterval]
                 /\ cleanup_errors' = cleanup_errors + 1
                 /\ terminate' = "none"
        /\ (cleanup_task.pc = "sleeping" /\ cleanup_task'.pc # "sleeping")
              => /\ terminate = "none" /\ terminate' = "await_cleanup"
                 /\ cleanup_task'.pc = "cancelling"
      ]_vars

\* the sweep at second 60 failed (a PendingSelection written at second 0
\* cannot be removed before second 61), and the sweep at second 120 ran
\* and removed a PendingSelection
C16_Witness ==
    /\ cleanup_errors = 1
    /\ observed = <<"swept", 1>>
    /\ now = 2 * CleanupInterval
    /\ cleanup_task = [pc |-> "sleeping", wake |-> now + CleanupInterval]
    /\ terminate = "none"

(* C17.  A numeric-reply handler removes only the PendingSelection it was   *)
(* resolved against: when the user's PendingSelection is another one (a     *)
(* search wrote it while the handler was suspended), the handler's steps    *)
(* leave it in place.  The code deletes waiting_users[user_key] whatever    *)
(* it holds.                                                                *)
C17_NewSelectionKept ==
    [][ \A t \in Tasks :
            LET uk == UserKeyOf(t)
            IN  ( /\ tasks[t].h = "number" /\ Stepped(t)
                  /\ uk \in DOMAIN waiting_users
                  /\ waiting_users[uk].key # tasks[t].cache_key )
                => /\ uk \in DOMAIN waiting_users'
                   /\ waiting_users'[uk] = waiting_users[uk]
      ]_vars

(* C18.  A sweep removes the orphaned ResultSets: one that has no owning    *)
(* PendingSelection and was stored more than TTL seconds ago is gone after  *)
(* the sweep.  The code's sweep deletes only the ResultSets that expired    *)
(* PendingSelections reference.                                             *)
C18_OrphansSwept ==
    [][ PeriodicCleanup =>
            \A k \in DOMAIN song_cache :
                (Orphan(k) /\ StoredAt(k) + TTL < now)
                    => k \notin DOMAIN song_cache'
      ]_vars

(* C19.  A search stores its ResultSet under a cache key that holds no      *)
(* ResultSet of another search.  The key is the user key and the second of  *)
(* the clock: two searches of one user in one second share it.              *)
C19_UniqueCacheKey ==
    [][ \A t \in Tasks, songs \in SongLists :
            (SearchReturned(t, songs) /\ songs # <<>>)
                => CacheKey(UserKeyOf(t), now) \notin DOMAIN song_cache
      ]_vars

(* C20.  While a delivery is in flight and the PendingSelection it was      *)
(* resolved against is still the user's, a further numeric reply of that    *)
(* user does not start a second delivery: whatever the number, it is        *)
(* answered with the stale-session message.  A search of the same user in   *)
(* the second of the first search stores its ResultSet under the consumed   *)
(* key again (C19), and the reply is taken against it.                      *)
C20_ConsumedOnce ==
    \A s \in Tasks, k \in Numbers :
        LET uk == UserKeyOf(s)
            reply == NumberEntry(tasks[s].who, k).task
        IN  ( /\ Delivering(s)
              /\ uk \in DOMAIN waiting_users
              /\ waiting_users[uk].key = tasks[s].cache_key )
            => /\ reply.pc \notin DeliveryPcs
               /\ reply.sent = << [type |-> "msg_cache_expired", arg |-> 0] >>
=============================================================================
